---- MODULE Spec2Model ----
(***************************************************************************)
(* Model of the recap lexical front end (core/src/human.rs) and of the     *)
(* shell's error constructor (src/main.rs).                                *)
(*                                                                         *)
(* A buffer is a sequence of one-byte characters.  A Span (nom_locate's    *)
(* LocatedSpan<&str>) is a record [offset, fragment]: the absolute byte    *)
(* offset of the view in the original buffer and the text of the view.     *)
(* A parser result (nom's IResult) is a record                             *)
(*   [res, rem, out, kind]                                                 *)
(* with res = "Ok" (rem = remaining input, out = output) or                *)
(* res = "Error" (rem = the input the error was built from, kind = the     *)
(* nom ErrorKind).  The parsers used are all `complete` parsers, so no     *)
(* parser returns Incomplete; Failure is handled like Error by the         *)
(* Tokenizer.  Characters are one byte wide (ASCII), so byte offsets and    *)
(* character positions coincide; the line and column a LocatedSpan also    *)
(* tracks are read by no code of the repository and are left out.          *)
(*                                                                         *)
(* A parser combinator is written as an operator over the result of the    *)
(* parser that runs before it (preceded(t), alt(c, i), delimited_first(a)), *)
(* so that each step of the source reads as one definition.                *)
(***************************************************************************)
EXTENDS Integers, Sequences, FiniteSets, TLC

\* ------------------------------------------------------------------ bounds
MaxLen == 4
MaxPieces == 5
MaxNone == 2
PairMaxLen == 3

\* ------------------------------------------------------------- characters
AlphaChars == {"a", "b", "x"}
SpaceChars == {" ", "\t", "\r", "\n"}
EolChars == {"\n", "\r"}
Alphabet == {"a", "b", " ", "\t", "\r", "\n", "/", "1"}
PairAlphabet == {"a", " ", "1"}
\* every character a buffer of the model can hold
Chars == Alphabet \cup AlphaChars

\* char::is_alpha as used by alpha1 (ASCII letters)
IsAlpha(c) == c \in AlphaChars
\* a whitespace class that forgets the tab
IsMultispace_NoTab(c) == c \in SpaceChars \ {"\t"}
\* the characters multispace1 accepts
IsMultispace(c) == c \in SpaceChars
\* the characters is_not("\n\r") stops at
IsEol(c) == c \in EolChars

\* ------------------------------------------------------------------ spans
NewSpan(s) == [offset |-> 0, fragment |-> s]

SpanLen(i) == Len(i.fragment)

\* the first n bytes of the view, at the view's own offset
TakePrefix(i, n) == [offset |-> i.offset, fragment |-> SubSeq(i.fragment, 1, n)]
\* a remainder cut at an absolute instead of a view-relative position
TakeSuffix_AbsoluteIndex(i, n) ==
    [offset |-> i.offset + n,
     fragment |-> SubSeq(i.fragment, i.offset + n + 1, Len(i.fragment))]
\* a remainder that forgets to advance its offset
TakeSuffix_KeepsOffset(i, n) ==
    [offset |-> i.offset,
     fragment |-> SubSeq(i.fragment, n + 1, Len(i.fragment))]
\* the view after its first n bytes
TakeSuffix(i, n) ==
    [offset |-> i.offset + n,
     fragment |-> SubSeq(i.fragment, n + 1, Len(i.fragment))]

NoSpan == [offset |-> 0, fragment |-> << >>]

OkResult(rem, out) == [res |-> "Ok", rem |-> rem, out |-> out, kind |-> "none"]
ErrorResult(i, kind) == [res |-> "Error", rem |-> i, out |-> NoSpan, kind |-> kind]

\* str::position(predicate) followed by the None => whole-input rule: the
\* number of leading characters of s before the first one in the set stop
PrefixLen(s, stop) ==
    LET hits == {k \in 1..Len(s) : s[k] \in stop}
    IN  IF hits = {} THEN Len(s)
        ELSE (CHOOSE k \in hits : \A j \in hits : k <= j) - 1

\* take_split(n), or the error when the prefix is empty
SplitAt(i, n, kind) ==
    IF n = 0 THEN ErrorResult(i, kind)
    ELSE OkResult(TakeSuffix(i, n), TakePrefix(i, n))

\* split_at_position1_complete: the longest prefix free of stop characters,
\* which must hold at least one character
SplitAtPosition1Complete(i, stop, kind) ==
    SplitAt(i, PrefixLen(i.fragment, stop), kind)

\* tag("//")
TagSlashSlash(i) ==
    IF SpanLen(i) >= 2 /\ SubSeq(i.fragment, 1, 2) = <<"/", "/">>
    THEN OkResult(TakeSuffix(i, 2), TakePrefix(i, 2))
    ELSE ErrorResult(i, "Tag")

\* is_not("\n\r")
IsNotEol(i) ==
    SplitAtPosition1Complete(i, {c \in Chars : IsEol(c)}, "IsNot")

\* multispace0 in place of multispace1: succeeds on no whitespace at all
multispace1_ZeroOk(i) ==
    OkResult(TakeSuffix(i, PrefixLen(i.fragment, {c \in Chars : ~IsMultispace(c)})),
             TakePrefix(i, PrefixLen(i.fragment, {c \in Chars : ~IsMultispace(c)})))
\* multispace1
multispace1(i) ==
    SplitAtPosition1Complete(i, {c \in Chars : ~IsMultispace(c)}, "MultiSpace")

\* a parser that takes one alphabetic character instead of the whole run
alpha1_OneChar(i) ==
    SplitAt(i, IF PrefixLen(i.fragment, {c \in Chars : ~IsAlpha(c)}) = 0
               THEN 0 ELSE 1, "Alpha")
\* the streaming alpha1: Incomplete when the run reaches the end of input
alpha1_Streaming(i) ==
    IF PrefixLen(i.fragment, {c \in Chars : ~IsAlpha(c)}) = SpanLen(i)
    THEN [res |-> "Incomplete", rem |-> i, out |-> NoSpan, kind |-> "none"]
    ELSE SplitAtPosition1Complete(i, {c \in Chars : ~IsAlpha(c)}, "Alpha")
\* alpha1
alpha1(i) ==
    SplitAtPosition1Complete(i, {c \in Chars : ~IsAlpha(c)}, "Alpha")

\* preceded(first, is_not("\n\r")), given the result t of first: the second
\* parser runs on what first left, and its output is the result
preceded(t) == IF t.res # "Ok" THEN t ELSE IsNotEol(t.rem)

\* eol_comment: preceded(tag("//"), is_not("\n\r"))
eol_comment(i) == preceded(TagSlashSlash(i))

\* alt((first, multispace1)) on i, given the result c of first on i: the
\* second alternative is tried only after a recoverable Error
alt(c, i) == IF c.res = "Error" THEN multispace1(i) ELSE c

\* alt((eol_comment, multispace1))
CommentOrSpace(i) == alt(eol_comment(i), i)

\* ws_or_eol: fold_many0(alt((eol_comment, multispace1)), || {}, |_, _| {})
\* fold_many0(i, r) is one round of the loop, r being the result of the
\* folded parser on i: stop with success at the first Error, fail with Many0
\* if nothing was consumed, otherwise go round again on the remainder
RECURSIVE ws_or_eol(_), fold_many0(_, _)
fold_many0(i, r) ==
    CASE r.res = "Ok" ->
           IF SpanLen(r.rem) = SpanLen(i)
           THEN ErrorResult(i, "Many0")
           ELSE ws_or_eol(r.rem)
      [] r.res = "Error" -> OkResult(i, NoSpan)
      [] OTHER -> r

ws_or_eol(i) == fold_many0(i, CommentOrSpace(i))

\* word: alpha1 wrapped as Token::Word
word(i) == alpha1(i)

\* alt((word,))
token(i) == word(i)

\* delimited(ws_or_eol, token, ws_or_eol), step by step: each parser runs on
\* what the one before left; the result is the middle output b.out with the
\* remainder of the last parser
delimited_third(b, c) == IF c.res # "Ok" THEN c ELSE OkResult(c.rem, b.out)
delimited_second(b) ==
    IF b.res # "Ok" THEN b ELSE delimited_third(b, ws_or_eol(b.rem))
delimited_first(a) == IF a.res # "Ok" THEN a ELSE delimited_second(token(a.rem))

\* ws(token)
ws(i) == delimited_first(ws_or_eol(i))

\* ----------------------------------------------------------- the Tokenizer
\* What one pull yields: None, Some(Ok(Token::Word(span))) or
\* Some(Err(E::from_error_kind(span, kind))).
NoneItem == [tag |-> "None", kind |-> "none", span |-> NoSpan]
OkItem(span) == [tag |-> "Ok", kind |-> "Word", span |-> span]
ErrItem(span, kind) == [tag |-> "Err", kind |-> kind, span |-> span]

\* tokenize(): a Tokenizer over the whole view, not done
tokenize(i) == [input |-> i, done |-> FALSE]

\* an Ok arm that forgets to store the remainder
MatchOk_KeepsInput(self, r) ==
    [input |-> self.input, done |-> (SpanLen(r.rem) = 0),
     item |-> OkItem(r.out)]

\* an Ok arm that never sets the done flag
MatchOk_NeverDone(self, r) ==
    [input |-> r.rem, done |-> FALSE, item |-> OkItem(r.out)]

\* the Ok arm of the match: store the remainder, done iff it is empty
MatchOk(self, r) ==
    [input |-> r.rem, done |-> (SpanLen(r.rem) = 0), item |-> OkItem(r.out)]

\* the Incomplete arm: done, Err(Eof) built from the Tokenizer's own view
MatchIncomplete(self, r) ==
    [input |-> self.input, done |-> TRUE, item |-> ErrItem(self.input, "Eof")]

\* an Error arm that reports the mismatch without becoming done
MatchError_NotDone(self, r) ==
    IF SpanLen(r.rem) = 0
    THEN [input |-> self.input, done |-> self.done, item |-> NoneItem]
    ELSE [input |-> self.input, done |-> self.done,
          item |-> ErrItem(r.rem, r.kind)]

\* an Error arm that treats every mismatch as the end of the input
MatchError_Silent(self, r) ==
    [input |-> self.input, done |-> TRUE, item |-> NoneItem]

\* an Error arm that moves the view to the failing position
MatchError_StoresRem(self, r) ==
    IF SpanLen(r.rem) = 0
    THEN [input |-> r.rem, done |-> self.done, item |-> NoneItem]
    ELSE [input |-> r.rem, done |-> TRUE, item |-> ErrItem(r.rem, r.kind)]

\* the Error / Failure arm: an early return of None when the failing
\* position is empty, otherwise done and the Err built at that position
MatchError(self, r) ==
    IF SpanLen(r.rem) = 0
    THEN [input |-> self.input, done |-> self.done, item |-> NoneItem]
    ELSE [input |-> self.input, done |-> TRUE, item |-> ErrItem(r.rem, r.kind)]

\* the match on the result r of ws(token)(self.input)
Match(self, r) ==
    CASE r.res = "Ok" -> MatchOk(self, r)
      [] r.res = "Incomplete" -> MatchIncomplete(self, r)
      [] OTHER -> MatchError(self, r)

\* a Tokenizer that clears its done flag when it reports the end
TokenizerNext_Resumes(self) ==
    IF self.done
    THEN [input |-> self.input, done |-> FALSE, item |-> NoneItem]
    ELSE Match(self, ws(self.input))

\* Tokenizer::next as a function of the Tokenizer's fields: the fields after
\* the pull and the item the pull returns
TokenizerNext(self) ==
    IF self.done
    THEN [input |-> self.input, done |-> self.done, item |-> NoneItem]
    ELSE Match(self, ws(self.input))

\* Iterator::collect over a Tokenizer (and the shell's for loop): pull until
\* the first None, keeping the items in order
RECURSIVE collect(_), collect_item(_)
collect_item(r) ==
    IF r.item.tag = "None" THEN << >>
    ELSE <<r.item>> \o collect([input |-> r.input, done |-> r.done])

collect(self) == collect_item(TokenizerNext(self))

\* an error range that covers the offending character only
from_error_kind_OneChar(i, kind) ==
    [start |-> i.offset, end |-> i.offset + 1,
     message |-> <<"expected", kind>>]

\* ParseError::from_error_kind of the shell: the labelled byte range
from_error_kind(i, kind) ==
    [start |-> i.offset, end |-> i.offset + Len(i.fragment),
     message |-> <<"expected", kind>>]

\* ------------------------------------------------- the plain-slice view
\* The same tokenizer over a plain slice: a view that is its text only and
\* carries no offset.  Results are [res, rem, out, kind] with rem and out
\* plain texts; a pull returns the fields after it and [tag, text].
PlainOk(rem, out) == [res |-> "Ok", rem |-> rem, out |-> out, kind |-> "none"]
PlainError(s, kind) == [res |-> "Error", rem |-> s, out |-> << >>, kind |-> kind]

\* longest non-empty prefix of s free of stop characters
plain_split(s, n, kind) ==
    IF n = 0 THEN PlainError(s, kind)
    ELSE PlainOk(SubSeq(s, n + 1, Len(s)), SubSeq(s, 1, n))

plain_alpha1(s) ==
    plain_split(s, PrefixLen(s, {c \in Chars : ~IsAlpha(c)}), "Alpha")
plain_multispace1(s) ==
    plain_split(s, PrefixLen(s, {c \in Chars : ~IsMultispace(c)}), "MultiSpace")
plain_is_not(s) ==
    plain_split(s, PrefixLen(s, {c \in Chars : IsEol(c)}), "IsNot")
plain_tag(s) ==
    IF Len(s) >= 2 /\ s[1] = "/" /\ s[2] = "/"
    THEN PlainOk(SubSeq(s, 3, Len(s)), SubSeq(s, 1, 2))
    ELSE PlainError(s, "Tag")

plain_preceded(t) == IF t.res # "Ok" THEN t ELSE plain_is_not(t.rem)
plain_eol_comment(s) == plain_preceded(plain_tag(s))
plain_alt(c, s) == IF c.res = "Error" THEN plain_multispace1(s) ELSE c

RECURSIVE plain_ws_or_eol(_), plain_fold(_, _)
plain_fold(s, r) ==
    CASE r.res = "Ok" ->
           IF Len(r.rem) = Len(s) THEN PlainError(s, "Many0")
           ELSE plain_ws_or_eol(r.rem)
      [] r.res = "Error" -> PlainOk(s, << >>)
      [] OTHER -> r
plain_ws_or_eol(s) == plain_fold(s, plain_alt(plain_eol_comment(s), s))

plain_third(b, c) == IF c.res # "Ok" THEN c ELSE PlainOk(c.rem, b.out)
plain_second(b) ==
    IF b.res # "Ok" THEN b ELSE plain_third(b, plain_ws_or_eol(b.rem))
plain_first(a) == IF a.res # "Ok" THEN a ELSE plain_second(plain_alpha1(a.rem))
plain_ws(s) == plain_first(plain_ws_or_eol(s))

plain_match(self, r) ==
    CASE r.res = "Ok" ->
           [input |-> r.rem, done |-> (Len(r.rem) = 0),
            item |-> [tag |-> "Ok", text |-> r.out]]
      [] r.res = "Incomplete" ->
           [input |-> self.input, done |-> TRUE,
            item |-> [tag |-> "Err", text |-> self.input]]
      [] OTHER ->
           IF Len(r.rem) = 0
           THEN [input |-> self.input, done |-> self.done,
                 item |-> [tag |-> "None", text |-> << >>]]
           ELSE [input |-> self.input, done |-> TRUE,
                 item |-> [tag |-> "Err", text |-> r.rem]]

plain_next(self) ==
    IF self.done
    THEN [input |-> self.input, done |-> self.done,
          item |-> [tag |-> "None", text |-> << >>]]
    ELSE plain_match(self, plain_ws(self.input))

RECURSIVE plain_collect(_), plain_collect_item(_)
plain_collect_item(r) ==
    IF r.item.tag = "None" THEN << >>
    ELSE <<r.item>> \o plain_collect([input |-> r.input, done |-> r.done])
plain_collect(self) == plain_collect_item(plain_next(self))

\* ------------------------------------------------------------------ inputs
\* every buffer of at most n characters of the set chars
Strings(chars, n) == UNION {[1..k -> chars] : k \in 0..n}

\* the longer buffers are built from whole pieces: a word, whitespace, a line
\* terminator, an empty and a non-empty comment, a digit
Pieces ==
    {<<"b", "a">>, <<" ">>, <<"\n">>, <<"/", "/">>, <<"/", "/", "x">>, <<"1">>}

RECURSIVE Flatten(_)
Flatten(ss) == IF ss = << >> THEN << >> ELSE Head(ss) \o Flatten(Tail(ss))

\* buffers made of at most n pieces
PieceStrings(n) == {Flatten(ps) : ps \in Strings(Pieces, n)}

Inputs == Strings(Alphabet, MaxLen) \cup PieceStrings(MaxPieces)
PairInputs == Strings(PairAlphabet, PairMaxLen)

\* ------------------------------------------------------------------- state
VARIABLES
    buf,        \* per Tokenizer: the caller-owned buffer it was built over
    input,      \* per Tokenizer: Tokenizer.input, the remaining view
    done,       \* per Tokenizer: Tokenizer.done
    yielded,    \* per Tokenizer: the Some(..) items pulled so far, in order
    nones       \* per Tokenizer: how many pulls returned None so far

vars == <<buf, input, done, yielded, nones>>

Ids == DOMAIN buf

InitOver(ids, bufs) ==
    /\ buf \in [ids -> bufs]
    /\ input = [t \in ids |-> tokenize(NewSpan(buf[t])).input]
    /\ done = [t \in ids |-> tokenize(NewSpan(buf[t])).done]
    /\ yielded = [t \in ids |-> << >>]
    /\ nones = [t \in ids |-> 0]

\* one Tokenizer over any input
Init == InitOver({1}, Inputs)
\* two Tokenizers, over the same or over different buffers
InitPair == InitOver({1, 2}, PairInputs)

\* a pull that writes one done flag shared by every Tokenizer
step_SharedDone(t, r) ==
    /\ input' = [input EXCEPT ![t] = r.input]
    /\ done' = [u \in Ids |-> r.done]
    /\ yielded' = [yielded EXCEPT ![t] =
                     IF r.item.tag = "None" THEN @ ELSE Append(@, r.item)]
    /\ nones' = [nones EXCEPT ![t] =
                     IF r.item.tag = "None" THEN @ + 1 ELSE @]
    /\ UNCHANGED buf

\* the effect on Tokenizer t of a pull whose outcome is r
step(t, r) ==
    /\ input' = [input EXCEPT ![t] = r.input]
    /\ done' = [done EXCEPT ![t] = r.done]
    /\ yielded' = [yielded EXCEPT ![t] =
                     IF r.item.tag = "None" THEN @ ELSE Append(@, r.item)]
    /\ nones' = [nones EXCEPT ![t] =
                     IF r.item.tag = "None" THEN @ + 1 ELSE @]
    /\ UNCHANGED buf

\* one pull of Tokenizer t
next(t) ==
    /\ nones[t] < MaxNone
    /\ step(t, TokenizerNext([input |-> input[t], done |-> done[t]]))

Next == \E t \in Ids : next(t)

Spec == Init /\ [][Next]_vars
SpecPair == InitPair /\ [][Next]_vars

\* ------------------------------------------------- vocabulary of the claims
IsPrefix(s, u) == Len(s) <= Len(u) /\ s = SubSeq(u, 1, Len(s))

\* the maximal alphabetic runs of b from position k on, left to right, each
\* with its byte offset in b
RECURSIVE RunsFrom(_, _)
RunsFrom(b, k) ==
    IF k > Len(b) THEN << >>
    ELSE IF ~IsAlpha(b[k]) THEN RunsFrom(b, k + 1)
    ELSE LET e == CHOOSE j \in k..Len(b) :
                     /\ \A m \in k..j : IsAlpha(b[m])
                     /\ (j = Len(b) \/ ~IsAlpha(b[j + 1]))
         IN  <<[offset |-> k - 1, fragment |-> SubSeq(b, k, e)]>>
               \o RunsFrom(b, e + 1)

Runs(b) == RunsFrom(b, 1)

\* one Ok(Word) per span
WordItems(spans) == [k \in 1..Len(spans) |-> OkItem(spans[k])]

OnlyAlphaAndSpace(b) ==
    \A k \in 1..Len(b) : IsAlpha(b[k]) \/ b[k] \in SpaceChars

Ended(t) == nones[t] > 0

\* Insignificant text as the specification describes it.  A slash-slash
\* comment starts at the first "//" of a line and runs up to, not including,
\* the line terminator or the end of the buffer; its body may be empty.
LineStart(b, k) ==
    CHOOSE j \in 1..k :
        /\ j = 1 \/ b[j - 1] \in EolChars
        /\ \A m \in j..k - 1 : b[m] \notin EolChars

IsMarker(b, s) == s < Len(b) /\ b[s] = "/" /\ b[s + 1] = "/"

InComment(b, k) ==
    /\ b[k] \notin EolChars
    /\ \E s \in LineStart(b, k)..k : IsMarker(b, s)

CommentStart(b, k) == InComment(b, k) /\ (k = 1 \/ ~InComment(b, k - 1))

Class(b, k) ==
    IF InComment(b, k) THEN "comment"
    ELSE IF IsAlpha(b[k]) THEN "alpha"
    ELSE IF b[k] \in SpaceChars THEN "space"
    ELSE "other"

\* built from alphabetic runs, whitespace and comments only
WellFormed(b) == \A k \in 1..Len(b) : Class(b, k) # "other"

\* a comment of b has an empty body: the marker is directly followed by a
\* line terminator or by the end of the buffer
HasEmptyComment(b) ==
    \E k \in 1..Len(b) :
        CommentStart(b, k) /\ (k + 2 > Len(b) \/ b[k + 2] \in EolChars)

\* b with every comment character overwritten by a space (offsets kept)
Blank(b) == [k \in 1..Len(b) |-> IF InComment(b, k) THEN " " ELSE b[k]]

\* b with every comment replaced by a single space
Decomment(b) ==
    LET keep == {k \in 1..Len(b) : ~InComment(b, k) \/ CommentStart(b, k)}
        nth(j) == CHOOSE k \in keep : Cardinality({m \in keep : m < k}) = j - 1
    IN  [j \in 1..Cardinality(keep) |-> Blank(b)[nth(j)]]

\* an item without its offset: the outcome kind and the text
Texts(items) ==
    [k \in 1..Len(items) |->
        [tag |-> items[k].tag, text |-> items[k].span.fragment]]

\* the last alphabetic run of b is followed only by optional whitespace and
\* one comment that runs to the end of b
TrailingComment(b) ==
    \E s \in 2..Len(b) :
        /\ CommentStart(b, s)
        /\ \A k \in s..Len(b) : InComment(b, k)
        /\ \E j \in 1..s - 1 :
              /\ Class(b, j) = "alpha"
              /\ \A m \in j + 1..s - 1 : Class(b, m) = "space"

HasOther(b) == \E k \in 1..Len(b) : Class(b, k) = "other"
\* the position of the first character that is neither alphabetic nor
\* insignificant
FirstOther(b) ==
    CHOOSE k \in 1..Len(b) :
        /\ Class(b, k) = "other"
        /\ \A m \in 1..k - 1 : Class(b, m) # "other"

\* ------------------------------------------------------------------ claims

\* C1: once a pull on a Tokenizer has yielded None, no later pull on it
\* yields an item (a token or an error).
C1_DoneIsAbsorbing ==
    [][\A t \in Ids : Ended(t) => yielded'[t] = yielded[t]]_vars

\* a Tokenizer over a non-empty buffer was pulled again after its first None,
\* in the case where the end was reported without the done flag
C1_Witness ==
    \E t \in Ids : nones[t] >= 2 /\ ~done[t] /\ Len(buf[t]) > 0

\* C2: the items a Tokenizer yields hold at most one Err and that Err is the
\* last item: nothing is yielded after it.
C2_ErrIsTerminal ==
    \A t \in Ids : \A k \in 1..Len(yielded[t]) :
        yielded[t][k].tag = "Err" => k = Len(yielded[t])

\* a Tokenizer yielded a Word, then an Err, and was pulled again
C2_Witness ==
    \E t \in Ids :
        /\ Len(yielded[t]) >= 2
        /\ yielded[t][Len(yielded[t])].tag = "Err"
        /\ Ended(t)

\* C3: over a buffer of alphabetic and whitespace characters only, the items
\* yielded are exactly one Ok(Word) per maximal alphabetic run, left to
\* right, and no Err; the amount of whitespace does not matter.
C3_WhitespaceInsensitive ==
    \A t \in Ids : OnlyAlphaAndSpace(buf[t]) =>
        /\ IsPrefix(yielded[t], WordItems(Runs(buf[t])))
        /\ Ended(t) => yielded[t] = WordItems(Runs(buf[t]))

\* a finished Tokenizer over two words with leading, separating and
\* trailing whitespace
C3_Witness ==
    \E t \in Ids :
        /\ OnlyAlphaAndSpace(buf[t])
        /\ Ended(t)
        /\ Len(yielded[t]) = 2
        /\ Len(buf[t]) >= 5
        /\ buf[t][1] \in SpaceChars
        /\ buf[t][Len(buf[t])] \in SpaceChars

\* C4: over a buffer built from alphabetic runs, whitespace and slash-slash
\* comments (a comment body being zero or more characters other than CR/LF),
\* the items yielded are those yielded for the same buffer with every
\* comment replaced by a single space.
C4_CommentTransparency ==
    \A t \in Ids : (WellFormed(buf[t]) /\ Ended(t)) =>
        Texts(yielded[t]) =
            Texts(collect(tokenize(NewSpan(Decomment(buf[t])))))

\* C4 restricted to buffers whose comments all have a non-empty body
C4_NonEmptyComments ==
    \A t \in Ids :
        (WellFormed(buf[t]) /\ ~HasEmptyComment(buf[t]) /\ Ended(t)) =>
            Texts(yielded[t]) =
                Texts(collect(tokenize(NewSpan(Decomment(buf[t])))))

\* C5: over a well-formed buffer whose last alphabetic run is followed only
\* by optional whitespace and a comment running to the end of the buffer,
\* the items yielded are the Words of the buffer and no Err.
C5_TrailingComment ==
    \A t \in Ids : (WellFormed(buf[t]) /\ TrailingComment(buf[t])) =>
        /\ IsPrefix(yielded[t], WordItems(Runs(Blank(buf[t]))))
        /\ Ended(t) => yielded[t] = WordItems(Runs(Blank(buf[t])))

\* C5 restricted to buffers whose comments all have a non-empty body
C5_NonEmptyComments ==
    \A t \in Ids :
        (WellFormed(buf[t]) /\ TrailingComment(buf[t])
            /\ ~HasEmptyComment(buf[t])) =>
            /\ IsPrefix(yielded[t], WordItems(Runs(Blank(buf[t]))))
            /\ Ended(t) => yielded[t] = WordItems(Runs(Blank(buf[t])))

\* C6: when the first character c that is neither alphabetic nor
\* insignificant sits at byte offset p, the items yielded are the Ok(Word)s
\* of the runs before c, then exactly one Err whose range starts at p, then
\* nothing.
ExpectedBeforeOther(b) ==
    WordItems(Runs(SubSeq(Blank(b), 1, FirstOther(b) - 1)))

C6_UnexpectedCharacter ==
    \A t \in Ids : (HasOther(buf[t]) /\ Ended(t)) =>
        /\ Len(yielded[t]) = Len(ExpectedBeforeOther(buf[t])) + 1
        /\ SubSeq(yielded[t], 1, Len(yielded[t]) - 1)
              = ExpectedBeforeOther(buf[t])
        /\ yielded[t][Len(yielded[t])].tag = "Err"
        /\ from_error_kind(yielded[t][Len(yielded[t])].span,
                           yielded[t][Len(yielded[t])].kind).start
              = FirstOther(buf[t]) - 1

\* C6 restricted to buffers whose comments all have a non-empty body
C6_NonEmptyComments ==
    \A t \in Ids :
        (HasOther(buf[t]) /\ ~HasEmptyComment(buf[t]) /\ Ended(t)) =>
            /\ Len(yielded[t]) = Len(ExpectedBeforeOther(buf[t])) + 1
            /\ SubSeq(yielded[t], 1, Len(yielded[t]) - 1)
                  = ExpectedBeforeOther(buf[t])
            /\ yielded[t][Len(yielded[t])].tag = "Err"
            /\ from_error_kind(yielded[t][Len(yielded[t])].span,
                               yielded[t][Len(yielded[t])].kind).start
                  = FirstOther(buf[t]) - 1

\* C7: every emitted Word carries a non-empty text that is exactly the
\* buffer substring at its offset, holds alphabetic characters only, and is
\* maximal: the buffer characters just before and just after it, when they
\* exist, are not alphabetic.
WholeWord(b, sp) ==
    /\ Len(sp.fragment) > 0
    /\ sp.offset >= 0
    /\ sp.offset + Len(sp.fragment) <= Len(b)
    /\ sp.fragment = SubSeq(b, sp.offset + 1, sp.offset + Len(sp.fragment))
    /\ \A k \in 1..Len(sp.fragment) : IsAlpha(sp.fragment[k])
    /\ sp.offset > 0 => ~IsAlpha(b[sp.offset])
    /\ sp.offset + Len(sp.fragment) < Len(b)
          => ~IsAlpha(b[sp.offset + Len(sp.fragment) + 1])

C7_WordsAreWhole ==
    \A t \in Ids : \A k \in 1..Len(yielded[t]) :
        yielded[t][k].tag = "Ok" => WholeWord(buf[t], yielded[t][k].span)

\* a Word of two or more characters was emitted from the middle of a buffer
\* that is not well-formed
C7_Witness ==
    \E t \in Ids : \E k \in 1..Len(yielded[t]) :
        /\ yielded[t][k].tag = "Ok"
        /\ Len(yielded[t][k].span.fragment) >= 2
        /\ yielded[t][k].span.offset > 0
        /\ yielded[t][k].span.offset + Len(yielded[t][k].span.fragment)
              < Len(buf[t])
        /\ ~WellFormed(buf[t])

\* C8: the remaining view is always a suffix of the original buffer: its
\* offset lies in 0..Len(buf), its text is the buffer from that offset to
\* the end, and the offset never decreases from one pull to the next.
RemainingIsSuffix(t) ==
    /\ input[t].offset \in 0..Len(buf[t])
    /\ input[t].fragment = SubSeq(buf[t], input[t].offset + 1, Len(buf[t]))

C8_RemainingIsSuffix ==
    /\ [](\A t \in Ids : RemainingIsSuffix(t))
    /\ [][\A t \in Ids : input'[t].offset >= input[t].offset]_vars

\* after two Words the remaining view starts strictly inside the buffer
C8_Witness ==
    \E t \in Ids :
        /\ Len(yielded[t]) >= 2
        /\ input[t].offset > 0
        /\ input[t].offset < Len(buf[t])

\* C9: the byte ranges of successively emitted Words are strictly
\* increasing and do not overlap: each Word starts at or after the end of
\* the one before it.
C9_SourceOrder ==
    \A t \in Ids : \A k \in 1..Len(yielded[t]) - 1 :
        (yielded[t][k].tag = "Ok" /\ yielded[t][k + 1].tag = "Ok") =>
            /\ yielded[t][k].span.offset < yielded[t][k + 1].span.offset
            /\ yielded[t][k].span.offset + Len(yielded[t][k].span.fragment)
                  <= yielded[t][k + 1].span.offset

\* three Words were emitted from one buffer
C9_Witness ==
    \E t \in Ids :
        /\ Len(yielded[t]) >= 3
        /\ \A k \in 1..3 : yielded[t][k].tag = "Ok"

\* C10: with two Tokenizers pulled in any interleaving, each yields exactly
\* the sequence it yields when pulled alone, and a pull on one changes
\* neither the remaining view nor the done flag of the other.
YieldsAsAlone(t) ==
    /\ IsPrefix(yielded[t], collect(tokenize(NewSpan(buf[t]))))
    /\ Ended(t) => yielded[t] = collect(tokenize(NewSpan(buf[t])))

NotPulled(t) == yielded'[t] = yielded[t] /\ nones'[t] = nones[t]

C10_Independent ==
    /\ [](\A t \in Ids : YieldsAsAlone(t))
    /\ [][\A t \in Ids :
            NotPulled(t) => (input'[t] = input[t] /\ done'[t] = done[t])]_vars

\* one Tokenizer was pulled to its end while another one, over a different
\* buffer, has yielded an item and is still active
C10_Witness ==
    \E t \in Ids : \E u \in Ids :
        /\ t # u
        /\ buf[t] # buf[u]
        /\ Ended(t) /\ done[t] /\ yielded[t] # << >>
        /\ yielded[u] # << >> /\ ~done[u] /\ ~Ended(u)

Emitted(t, tag) ==
    /\ Len(yielded'[t]) = Len(yielded[t]) + 1
    /\ yielded'[t][Len(yielded'[t])].tag = tag

\* the pull just taken on t returned None
ReturnedNone(t) == nones'[t] = nones[t] + 1

\* C12: after every pull that emits Ok(token) the remaining view is the
\* Wrapper's remainder R' and the done flag is set if and only if R' is
\* empty.
C12_OkPull ==
    [][\A t \in Ids : Emitted(t, "Ok") =>
          /\ input'[t] = ws(input[t]).rem
          /\ done'[t] <=> (input'[t].fragment = << >>)]_vars

\* a first Ok pull left the Tokenizer Active and a second one made it Done
C12_Witness ==
    \E t \in Ids :
        /\ Len(yielded[t]) = 2
        /\ yielded[t][2].tag = "Ok"
        /\ done[t]
        /\ nones[t] = 0
        /\ input[t].fragment = << >>

\* C13: a pull on an Active Tokenizer that fails at an empty failing
\* position yields no item and no error, and leaves the done flag set.
C13_SilentEndSetsDone ==
    [][\A t \in Ids : (~done[t] /\ ReturnedNone(t)) =>
          /\ yielded'[t] = yielded[t]
          /\ done'[t]]_vars

\* C13 without the done flag: the silent end yields nothing, and so does
\* every later pull
C13_SilentEndYieldsNothing ==
    [][\A t \in Ids : (~done[t] /\ ReturnedNone(t)) =>
          /\ yielded'[t] = yielded[t]
          /\ input'[t] = input[t]]_vars

\* C14: the Skipper ws_or_eol succeeds on every input, and the Wrapper
\* ws(token) fails exactly when, after the leading Skipper has run, the
\* input is empty or its first character is not alphabetic.
GrammarFailsAt(i) == i.fragment = << >> \/ ~IsAlpha(i.fragment[1])

C14_WrapperFailsWithGrammar ==
    \A t \in Ids :
        /\ ws_or_eol(input[t]).res = "Ok"
        /\ ws_or_eol(NewSpan(buf[t])).res = "Ok"
        /\ (ws(input[t]).res # "Ok") <=> GrammarFailsAt(ws_or_eol(input[t]).rem)
        /\ (ws(NewSpan(buf[t])).res # "Ok")
              <=> GrammarFailsAt(ws_or_eol(NewSpan(buf[t])).rem)

\* after a Word, the Skipper consumed leading text of the remaining view and
\* the Wrapper then failed on a non-alphabetic character; the Skipper also
\* succeeded with zero matches on a view
C14_Witness ==
    \E t \in Ids :
        /\ Len(yielded[t]) >= 1
        /\ ws(NewSpan(buf[t])).res = "Ok"
        /\ ws_or_eol(NewSpan(buf[t])).rem.offset > 0
        /\ ws(input[t]).res = "Error"
        /\ ws_or_eol(input[t]).rem = input[t]
        /\ input[t].fragment # << >>

\* the text is empty or begins with a character that is neither whitespace
\* nor the start of a slash-slash comment
Trimmed(s) == s = << >> \/ (s[1] \notin SpaceChars /\ ~IsMarker(s, 1))

\* C15: after every successful ws(token), and so after every pull that emits
\* Ok(token), the remaining input is fully trimmed: empty, or beginning with
\* a character that is neither whitespace nor the start of a slash-slash
\* comment.
C15_TrimmedRemainder ==
    \A t \in Ids :
        /\ ws(input[t]).res = "Ok" => Trimmed(ws(input[t]).rem.fragment)
        /\ (yielded[t] # << >> /\ yielded[t][Len(yielded[t])].tag = "Ok")
              => Trimmed(input[t].fragment)

\* C15 restricted to buffers whose comments all have a non-empty body
C15_NonEmptyComments ==
    \A t \in Ids : ~HasEmptyComment(buf[t]) =>
        /\ ws(input[t]).res = "Ok" => Trimmed(ws(input[t]).rem.fragment)
        /\ (yielded[t] # << >> /\ yielded[t][Len(yielded[t])].tag = "Ok")
              => Trimmed(input[t].fragment)

\* C16: over a buffer of n characters at most n items are yielded, so the
\* end of the sequence (a pull yielding nothing) comes after at most n + 1
\* pulls: a pull that emits Ok(token) strictly shortens the remaining view
\* and a pull that emits Err ends the sequence.
C16_Terminates ==
    /\ [](\A t \in Ids :
            /\ Len(yielded[t]) <= Len(buf[t])
            /\ Len(yielded[t]) = Len(buf[t]) =>
                  TokenizerNext([input |-> input[t],
                                 done |-> done[t]]).item.tag = "None")
    /\ [][\A t \in Ids :
            /\ Emitted(t, "Ok") => SpanLen(input'[t]) < SpanLen(input[t])
            /\ Emitted(t, "Err") => done'[t]]_vars

\* a buffer of n >= 2 characters gave n items and pull n + 1 gave None
C16_Witness ==
    \E t \in Ids :
        /\ Len(buf[t]) >= 2
        /\ Len(yielded[t]) = Len(buf[t])
        /\ nones[t] = 1

\* character k of the buffer lies inside a Word the Tokenizer emitted
InWord(t, k) ==
    \E j \in 1..Len(yielded[t]) :
        /\ yielded[t][j].tag = "Ok"
        /\ k > yielded[t][j].span.offset
        /\ k <= yielded[t][j].span.offset + Len(yielded[t][j].span.fragment)

NoErr(t) == \A j \in 1..Len(yielded[t]) : yielded[t][j].tag # "Err"

\* C17: if the sequence ends without an Err item, every character of the
\* buffer lies inside an emitted Word or inside insignificant text
\* (whitespace or a slash-slash comment); trailing garbage never leads to a
\* silent end.
C17_NoSilentLoss ==
    \A t \in Ids : (Ended(t) /\ NoErr(t)) =>
        \A k \in 1..Len(buf[t]) :
            \/ InWord(t, k) /\ Class(buf[t], k) = "alpha"
            \/ ~InWord(t, k) /\ Class(buf[t], k) \in {"space", "comment"}

\* a sequence of two Words ended without Err over a buffer that also holds
\* a comment and whitespace
C17_Witness ==
    \E t \in Ids :
        /\ Ended(t) /\ NoErr(t)
        /\ Len(yielded[t]) = 2
        /\ \E k \in 1..Len(buf[t]) : Class(buf[t], k) = "comment"
        /\ \E k \in 1..Len(buf[t]) : Class(buf[t], k) = "space"

\* C18: no pull emits the EndOfInput error: the parser never reports
\* Incomplete, and every Err emitted is the UnexpectedCharacter kind: a
\* mismatch of the alphabetic grammar at a non-empty position.
C18_NoEndOfInput ==
    \A t \in Ids :
        /\ ws(input[t]).res # "Incomplete"
        /\ \A j \in 1..Len(yielded[t]) :
              yielded[t][j].tag = "Err" =>
                  /\ yielded[t][j].kind = "Alpha"
                  /\ yielded[t][j].span.fragment # << >>

\* after a Word, an Err was emitted at the last character of a buffer
C18_Witness ==
    \E t \in Ids :
        /\ Len(yielded[t]) >= 2
        /\ yielded[t][Len(yielded[t])].tag = "Err"
        /\ yielded[t][Len(yielded[t])].span.offset = Len(buf[t]) - 1

\* C19: a pull that yields Err leaves the remaining view unchanged, and a
\* pull that yields nothing leaves the remaining view and the done flag
\* unchanged.
C19_NoTokenNoMove ==
    [][\A t \in Ids :
          /\ Emitted(t, "Err") => input'[t] = input[t]
          /\ ReturnedNone(t) => (input'[t] = input[t] /\ done'[t] = done[t])]_vars

\* an Err was emitted at a failing position past the start of the remaining
\* view, and the Tokenizer was then pulled again
C19_Witness ==
    \E t \in Ids :
        /\ yielded[t] # << >>
        /\ yielded[t][Len(yielded[t])].tag = "Err"
        /\ yielded[t][Len(yielded[t])].span.offset > input[t].offset
        /\ Ended(t)

\* C20: every error range the shell's constructor reports is non-empty and
\* runs to the end of the buffer: start < end, start is the offset of the
\* failing position, and the exclusive end is the buffer length.
C20_ErrorRange ==
    \A t \in Ids : \A j \in 1..Len(yielded[t]) :
        yielded[t][j].tag = "Err" =>
            /\ from_error_kind(yielded[t][j].span, yielded[t][j].kind).start
                  < from_error_kind(yielded[t][j].span, yielded[t][j].kind).end
            /\ from_error_kind(yielded[t][j].span, yielded[t][j].kind).start
                  = ws_or_eol(input[t]).rem.offset
            /\ from_error_kind(yielded[t][j].span, yielded[t][j].kind).end
                  = Len(buf[t])

\* an Err was emitted whose range starts inside the buffer and covers more
\* than the offending character
C20_Witness ==
    \E t \in Ids : \E j \in 1..Len(yielded[t]) :
        /\ yielded[t][j].tag = "Err"
        /\ yielded[t][j].span.offset > 0
        /\ Len(yielded[t][j].span.fragment) >= 2

====
